---- MODULE Spec2Model ----
(***************************************************************************)
(* Model of ModelLoader::load and the DrawModel dispatch layer of          *)
(* code/intermediate/tutorial14-compute/src/model.rs.                      *)
(*                                                                         *)
(* One call of load is modelled as the main thread (phase) plus the rayon  *)
(* tasks it fans out: one task per material (with its two texture loads)   *)
(* and one task per mesh (build, submit, blocking poll).  The GPU runs the *)
(* submitted compute passes asynchronously.                                *)
(***************************************************************************)
EXTENDS Integers, Sequences, FiniteSets, TLC

\* ------------------------------------------------------------------ bounds
MaxMaterials == 2
MaxMeshes == 3
NumThreads == 2

\* -------------------------------------------------------------- utilities
None == <<>>
Some(x) == <<x>>

\* Option::unwrap_or
unwrap_or(opt, default) == IF opt = None THEN default ELSE opt[1]

Range(s) == {s[i] : i \in DOMAIN s}

\* `len as u32` (and the second `as u32` of line 292) of a length: the
\* cast keeps every length below 2^32, and the model checker's integers end
\* below that, so no length of the model is changed by it.
AsU32(n) == n

\* ----------------------------------------------------------------- inputs
\* What the path names: a well-formed asset, a file that does not exist, a
\* file tobj rejects, or a path without a parent directory ("" or "/"),
\* which names no file either.
PathKinds == {"asset", "missing", "unparsable", "noparent"}

\* Material record i of the .mtl file: its name and its two texture files.
MtlRecord(i) ==
    [name |-> i, diffuse_texture |-> <<"diffuse", i>>, normal_texture |-> <<"normal", i>>]

MtlRecords(n) == [i \in 1..n |-> MtlRecord(i)]

\* Geometry of one tobj mesh: the lengths of its flat arrays.
TriGeom     == [positions |-> 9,  texcoords |-> 6, normals |-> 9,  indices |-> 3]
QuadGeom    == [positions |-> 12, texcoords |-> 8, normals |-> 12, indices |-> 6]
EmptyGeom   == [positions |-> 0,  texcoords |-> 0, normals |-> 0,  indices |-> 0]
NoTexGeom   == [positions |-> 9,  texcoords |-> 0, normals |-> 9,  indices |-> 3]
NoNormGeom  == [positions |-> 9,  texcoords |-> 6, normals |-> 0,  indices |-> 3]

\* The (geometry, material_id) pairs a mesh of an asset with n materials is
\* drawn from.  tobj sets material_id to None or to the index of a material
\* it has loaded.
MeshChoices(n) ==
    {<<TriGeom, None>>, <<EmptyGeom, None>>, <<NoTexGeom, None>>}
    \cup (IF n >= 1
          THEN {<<QuadGeom, Some(n - 1)>>, <<NoNormGeom, Some(0)>>}
          ELSE {})

ObjModel(i, c) == [name |-> i, mesh |-> [positions |-> c[1].positions,
                                         texcoords |-> c[1].texcoords,
                                         normals |-> c[1].normals,
                                         indices |-> c[1].indices,
                                         material_id |-> c[2]]]

\* A mesh of the asset no task has read yet: only its place in the file is
\* known.  Its arrays and material_id are drawn from MeshChoices when the task
\* of the mesh reads them (nothing else in load reads them).
Unread(i) == [name |-> i]

\* ------------------------------------------------------------------ state
VARIABLES
    path,        \* what the path argument of load names
    obj_models,  \* the meshes of the asset file, in file order; see Unread
    obj_materials, \* the materials of the asset file, in file order
    phase,       \* position of the thread that called load
    tex,         \* tex[i][k]: outcome of texture load k of material i
    texArrival,  \* texArrival[i]: texture loads of material i in completion order
    matTask,     \* matTask[i]: outcome of the task of material i
    meshPc,      \* meshPc[i]: position of the task of mesh i
    built,       \* built[i]: mesh, bind group and encoded pass of mesh task i
    meshTask,    \* meshTask[i]: outcome of the task of mesh i
    arrival,     \* tasks of the running phase in completion order
    materials,   \* the collected materials
    queue,       \* command buffers submitted to the queue
    gpu,         \* gpu[i]: progress of the submission of mesh i on the device
    result,      \* what load returned
    render,      \* what the render pass did with the returned Model
    state,       \* the State of the swap chain tutorial, None before State::new
    swap_chains, \* number of swap chains the device has created
    control_flow, \* the ControlFlow the event loop closure has set
    presented,   \* swap chain whose frame the last render drew to
    last         \* the last Resized or HiDpiFactorChanged event handled

vars == <<path, obj_models, obj_materials, phase, tex, texArrival, matTask,
          meshPc, built, meshTask, arrival, materials, queue, gpu, result, render>>

swapVars == <<state, swap_chains, control_flow, presented, last>>

Idle == <<"idle">>
Skipped == <<"skipped">>
Panicked == <<"panic">>
Ok(v) == <<"Ok", v>>
Err(e) == <<"Err", e>>

IsOk(r) == r[1] = "Ok"
IsErr(r) == r[1] = "Err"

NMat == Len(obj_materials)
NMesh == Len(obj_models)

Init ==
    /\ path \in PathKinds
    /\ \E n \in 0..MaxMaterials :
          /\ obj_materials = MtlRecords(n)
          /\ \E k \in 0..MaxMeshes : obj_models = [i \in 1..k |-> Unread(i)]
    /\ phase = "parse"
    /\ tex = [i \in 1..NMat |-> <<Idle, Idle>>]
    /\ texArrival = [i \in 1..NMat |-> <<>>]
    /\ matTask = [i \in 1..NMat |-> Idle]
    /\ meshPc = [i \in 1..NMesh |-> "idle"]
    /\ built = [i \in 1..NMesh |-> None]
    /\ meshTask = [i \in 1..NMesh |-> Idle]
    /\ arrival = <<>>
    /\ materials = <<>>
    /\ queue = {}
    /\ gpu = [i \in 1..NMesh |-> "none"]
    /\ result = None
    /\ render = None
    \* model.rs opens no window
    /\ state = None
    /\ swap_chains = 0
    /\ control_flow = "Wait"
    /\ presented = None
    /\ last = None

\* ------------------------------------------------------------------ parse
\* tobj::load_obj(path, true)?
load_obj(p) == IF p = "asset" THEN Ok("obj") ELSE Err("AssetParseError")

\* path.parent().context("Directory has no parent")?
parent(p) == IF p = "noparent" THEN None ELSE Some("containing_folder")

\* Lines 195-198 with the error of load_obj dropped instead of returned.
ParseOutcomeParentOnly(p) ==
    IF parent(p) = None THEN Err("AssetParseError")
    ELSE Ok(unwrap_or(parent(p), ""))

\* Lines 195-198: the two `?` before any task is spawned.
ParseOutcome(p) ==
    IF IsErr(load_obj(p)) THEN load_obj(p)
    ELSE IF parent(p) = None THEN Err("AssetParseError")
    ELSE Ok(unwrap_or(parent(p), "")) 

Parse ==
    /\ phase = "parse"
    /\ IF IsOk(ParseOutcome(path))
       THEN /\ phase' = "materials"
            /\ result' = result
       ELSE /\ phase' = "returned"
            /\ result' = Some(ParseOutcome(path))
    /\ UNCHANGED <<path, obj_models, obj_materials, tex, texArrival, matTask,
                   meshPc, built, meshTask, arrival, materials, queue, gpu, render>>

\* -------------------------------------------------------------- materials
\* texture::Texture::load(device, queue, path, is_normal_map); readable says
\* whether the file can be read and decoded when the load runs.
Texture_load(texture_path, is_normal_map, readable) ==
    IF readable
    THEN Ok([path |-> texture_path, is_normal_map |-> is_normal_map])
    ELSE Err("TextureLoadError")

\* The array of (path, is_normal_map) pairs of lines 204-207.
TextureJobs(mat) == <<  <<mat.diffuse_texture, FALSE>>, <<mat.normal_texture, TRUE>>  >>

\* rayon's collect of the Ok payloads into a Vec: item i of the source lands
\* at position i, whatever the order the tasks finished in.
CollectByArrival(results, order) == [i \in 1..Len(results) |-> results[order[i]][2]]

Collect(results, order) == [i \in 1..Len(results) |-> results[i][2]]

\* collect::<Result<Vec<_>>>(): an Err of any item makes the whole an Err.
Resolved(results) == \A i \in DOMAIN results : results[i] # Idle

AnyErr(results) == \E i \in DOMAIN results : IsErr(results[i])

AnyPanic(results) == \E i \in DOMAIN results : results[i] = Panicked

CollectResult(results, order) ==
    IF AnyErr(results)
    THEN Err((CHOOSE r \in Range(results) : IsErr(r))[2])
    ELSE Ok(Collect(results, order))

\* Vec::pop twice: the last element first.
PopTextures(textures) ==
    [normal_texture |-> textures[Len(textures)], diffuse_texture |-> textures[Len(textures) - 1]]

\* Material::new (lines 73-109)
Material_new(name, diffuse_texture, normal_texture) ==
    [name |-> name,
     diffuse_texture |-> diffuse_texture,
     normal_texture |-> normal_texture,
     bind_group |-> [label |-> name,
                     entries |-> << [binding |-> 0, resource |-> <<"view", diffuse_texture>>],
                                    [binding |-> 1, resource |-> <<"sampler", diffuse_texture>>],
                                    [binding |-> 2, resource |-> <<"view", normal_texture>>],
                                    [binding |-> 3, resource |-> <<"sampler", normal_texture>>] >>]]

\* One texture load of the inner par_iter (line 210).
LoadTexture(i, k) ==
    /\ phase = "materials"
    /\ matTask[i] = Idle
    /\ tex[i][k] = Idle
    /\ \E readable \in BOOLEAN :
          tex' = [tex EXCEPT ![i][k] =
                     Texture_load(TextureJobs(obj_materials[i])[k][1],
                                  TextureJobs(obj_materials[i])[k][2], readable)]
    /\ texArrival' = [texArrival EXCEPT ![i] = Append(@, k)]
    /\ UNCHANGED <<path, obj_models, obj_materials, phase, matTask, meshPc, built,
                   meshTask, arrival, materials, queue, gpu, result, render>>

\* The inner collect stops feeding items once one of them is an Err.
SkipTexture(i, k) ==
    /\ phase = "materials"
    /\ matTask[i] = Idle
    /\ tex[i][k] = Idle
    /\ AnyErr(tex[i])
    /\ tex' = [tex EXCEPT ![i][k] = Skipped]
    /\ UNCHANGED <<path, obj_models, obj_materials, phase, texArrival, matTask, meshPc,
                   built, meshTask, arrival, materials, queue, gpu, result, render>>

\* Lines 212-224: the `?` on the textures, the two pops, Material::new.
MaterialOutcome(mat, texResults, order) ==
    IF IsErr(CollectResult(texResults, order))
    THEN CollectResult(texResults, order)
    ELSE Ok(Material_new(mat.name,
                         PopTextures(CollectResult(texResults, order)[2]).diffuse_texture,
                         PopTextures(CollectResult(texResults, order)[2]).normal_texture))

FinishMaterial(i) ==
    /\ phase = "materials"
    /\ matTask[i] = Idle
    /\ Resolved(tex[i])
    /\ matTask' = [matTask EXCEPT ![i] = MaterialOutcome(obj_materials[i], tex[i], texArrival[i])]
    /\ texArrival' = [texArrival EXCEPT ![i] = <<>>]
    /\ arrival' = Append(arrival, i)
    /\ UNCHANGED <<path, obj_models, obj_materials, phase, tex, meshPc, built,
                   meshTask, materials, queue, gpu, result, render>>

\* The outer collect stops feeding materials once one of them is an Err.
SkipMaterial(i) ==
    /\ phase = "materials"
    /\ matTask[i] = Idle
    /\ tex[i] = <<Idle, Idle>>
    /\ AnyErr(matTask)
    /\ matTask' = [matTask EXCEPT ![i] = Skipped]
    /\ UNCHANGED <<path, obj_models, obj_materials, phase, tex, texArrival, meshPc,
                   built, meshTask, arrival, materials, queue, gpu, result, render>>

\* Line 226 with the failed materials filtered out instead of returned by `?`.
JoinMaterialsKeepsGoing ==
    /\ phase = "materials"
    /\ Resolved(matTask)
    /\ phase' = "meshes"
    /\ materials' = [i \in 1..Cardinality({j \in 1..NMat : IsOk(matTask[j])}) |->
                        matTask[CHOOSE j \in 1..NMat :
                                   /\ IsOk(matTask[j])
                                   /\ Cardinality({l \in 1..j : IsOk(matTask[l])}) = i][2]]
    /\ arrival' = <<>>
    /\ UNCHANGED <<path, obj_models, obj_materials, tex, texArrival, matTask, meshPc,
                   built, meshTask, queue, gpu, result, render>>

\* Line 226: the outer collect and its `?`.
JoinMaterials ==
    /\ phase = "materials"
    /\ Resolved(matTask)
    /\ IF IsErr(CollectResult(matTask, arrival))
       THEN /\ phase' = "returned"
            /\ result' = Some(CollectResult(matTask, arrival))
            /\ materials' = materials
       ELSE /\ phase' = "meshes"
            /\ result' = result
            /\ materials' = CollectResult(matTask, arrival)[2]
    /\ arrival' = <<>>
    /\ UNCHANGED <<path, obj_models, obj_materials, tex, texArrival, matTask, meshPc,
                   built, meshTask, queue, gpu, render>>

\* ----------------------------------------------------------------- meshes
\* Line 231: the number of vertices, positions.len() / 3.
VertexCount(mesh) == mesh.positions \div 3

\* Lines 234-252: vertex i indexes the three arrays; an index at or past the
\* length of its array panics.
VertexPanics(mesh, i) ==
    \/ i * 3 + 2 >= mesh.positions
    \/ i * 2 + 1 >= mesh.texcoords
    \/ i * 3 + 2 >= mesh.normals

\* Lines 231-254 with the first vertex read whether or not there is one.
BuildVerticesReadsFirst(mesh) ==
    IF \E i \in 0..(VertexCount(mesh) - 1) \cup {0} : VertexPanics(mesh, i)
    THEN Panicked
    ELSE Ok([count |-> VertexCount(mesh), tangent |-> "zero", bitangent |-> "zero"])

\* Lines 231-254: the vertices, tangent and bitangent zeroed, or a panic.
BuildVertices(mesh) ==
    IF \E i \in 0..(VertexCount(mesh) - 1) : VertexPanics(mesh, i)
    THEN Panicked
    ELSE Ok([count |-> VertexCount(mesh), tangent |-> "zero", bitangent |-> "zero"])

\* device.create_buffer_init (lines 256-267)
create_buffer_init(label, contents, usage) ==
    [label |-> label, contents |-> contents, usage |-> usage]

\* Lines 271-277
MeshOf(m, vertices) ==
    [name |-> m.name,
     vertex_buffer |-> create_buffer_init(<<m.name, "Vertex Buffer">>, vertices, {"VERTEX", "STORAGE"}),
     index_buffer |-> create_buffer_init(<<m.name, "Index Buffer">>, m.mesh.indices, {"INDEX", "STORAGE"}),
     num_elements |-> AsU32(m.mesh.indices),
     material |-> unwrap_or(m.mesh.material_id, 0)]

\* impl pipeline::Bindable for Mesh (lines 120-164)
layout_entries ==
    << [binding |-> 0, visibility |-> "COMPUTE", readonly |-> FALSE],
       [binding |-> 1, visibility |-> "COMPUTE", readonly |-> TRUE] >>

bind_group_entries(mesh) ==
    << [binding |-> 0, resource |-> mesh.vertex_buffer],
       [binding |-> 0, resource |-> mesh.index_buffer] >>

\* pipeline::Binder::create_bind_group (line 280)
create_bind_group(mesh) ==
    [label |-> "Mesh BindGroup", layout |-> layout_entries, entries |-> bind_group_entries(mesh)]

\* Lines 289-293 with one workgroup per index instead of one per triangle.
ComputePassPerIndex(mesh, calc_bind_group) ==
    << [op |-> "set_pipeline", pipeline |-> "ModelLoader ComputePipeline"],
       [op |-> "set_bind_group", index |-> 0, bind_group |-> calc_bind_group],
       [op |-> "dispatch", x |-> mesh.num_elements, y |-> 1, z |-> 1] >>

\* Lines 289-293: the commands of the compute pass.
ComputePass(mesh, calc_bind_group) ==
    << [op |-> "set_pipeline", pipeline |-> "ModelLoader ComputePipeline"],
       [op |-> "set_bind_group", index |-> 0, bind_group |-> calc_bind_group],
       [op |-> "dispatch", x |-> mesh.num_elements \div 3, y |-> 1, z |-> 1] >>

\* A pool that never runs out of worker threads.
RunningNone == {}

\* Tasks that hold a worker thread between the end of the vertex par_iter and
\* their return: nothing in lines 256-297 yields to the thread pool.
Running == {i \in 1..NMesh : meshPc[i] \in {"encoded", "submitted"}}

\* Submissions the device has not finished.
InFlight == {i \in 1..NMesh : gpu[i] \in {"pending", "running"}}

\* Lines 231-293 of the task of mesh i, which reads m as the mesh record.
BuildMesh(i) ==
    /\ phase = "meshes"
    /\ meshPc[i] = "idle"
    /\ Cardinality(Running) < NumThreads
    /\ \E c \in MeshChoices(NMat) :
        LET m == ObjModel(i, c) IN
          /\ obj_models' = [obj_models EXCEPT ![i] = m]
          /\ IF BuildVertices(m.mesh) = Panicked
             THEN /\ meshPc' = [meshPc EXCEPT ![i] = "panicked"]
                  /\ meshTask' = [meshTask EXCEPT ![i] = Panicked]
                  /\ arrival' = Append(arrival, i)
                  /\ built' = built
             ELSE /\ meshPc' = [meshPc EXCEPT ![i] = "encoded"]
                  /\ built' = [built EXCEPT ![i] =
                        LET mesh == MeshOf(m, BuildVertices(m.mesh)[2])
                        IN Some([mesh |-> mesh,
                                 calc_bind_group |-> create_bind_group(mesh),
                                 encoder |-> ComputePass(mesh, create_bind_group(mesh))])]
                  /\ UNCHANGED <<meshTask, arrival>>
    /\ UNCHANGED <<path, obj_materials, phase, tex, texArrival, matTask,
                   materials, queue, gpu, result, render>>

\* Line 294: queue.submit
Submit(i) ==
    /\ phase = "meshes"
    /\ meshPc[i] = "encoded"
    /\ meshPc' = [meshPc EXCEPT ![i] = "submitted"]
    /\ queue' = queue \cup {[mesh |-> i, commands |-> built[i][1].encoder]}
    /\ gpu' = [gpu EXCEPT ![i] = "pending"]
    /\ UNCHANGED <<path, obj_models, obj_materials, phase, tex, texArrival, matTask,
                   built, meshTask, arrival, materials, result, render>>

\* device.poll(Maintain::Wait) blocks until the submissions made before the
\* call are complete.  The task's own submission is one of them; waiting for
\* those of other tasks as well can only delay the return.
PollReturnsAtOnce(i) == TRUE

PollReturns(i) == gpu[i] = "done"

\* Lines 295-297: the poll returns and the task returns Ok(mesh).
Poll(i) ==
    /\ phase = "meshes"
    /\ meshPc[i] = "submitted"
    /\ PollReturns(i)
    /\ meshPc' = [meshPc EXCEPT ![i] = "done"]
    /\ meshTask' = [meshTask EXCEPT ![i] = Ok(built[i][1].mesh)]
    /\ arrival' = Append(arrival, i)
    /\ UNCHANGED <<path, obj_models, obj_materials, phase, tex, texArrival, matTask,
                   built, materials, queue, gpu, result, render>>

\* After a panic the items a worker has not started may never run.
SkipMesh(i) ==
    /\ phase = "meshes"
    /\ meshPc[i] = "idle"
    /\ AnyPanic(meshTask)
    /\ meshPc' = [meshPc EXCEPT ![i] = "skipped"]
    /\ meshTask' = [meshTask EXCEPT ![i] = Skipped]
    /\ UNCHANGED <<path, obj_models, obj_materials, phase, tex, texArrival, matTask,
                   built, arrival, materials, queue, gpu, result, render>>

\* The device starts executing a submitted compute pass.
GpuStart(i) ==
    /\ gpu[i] = "pending"
    /\ gpu' = [gpu EXCEPT ![i] = "running"]
    /\ UNCHANGED <<path, obj_models, obj_materials, phase, tex, texArrival, matTask,
                   meshPc, built, meshTask, arrival, materials, queue, result, render>>

\* The device finishes a compute pass.
GpuFinish(i) ==
    /\ gpu[i] = "running"
    /\ gpu' = [gpu EXCEPT ![i] = "done"]
    /\ UNCHANGED <<path, obj_models, obj_materials, phase, tex, texArrival, matTask,
                   meshPc, built, meshTask, arrival, materials, queue, result, render>>

\* Lines 299-301: the collect of the meshes, its `?`, and Ok(Model).  A panic
\* of a task is resumed in the caller once the pool is done with the others.
LoadOutcome(meshResults, order, mats) ==
    IF AnyPanic(meshResults) THEN Panicked
    ELSE IF IsErr(CollectResult(meshResults, order)) THEN CollectResult(meshResults, order)
    ELSE Ok([meshes |-> CollectResult(meshResults, order)[2], materials |-> mats])

JoinMeshes ==
    /\ phase = "meshes"
    /\ Resolved(meshTask)
    /\ phase' = "returned"
    /\ result' = Some(LoadOutcome(meshTask, arrival, materials))
    /\ UNCHANGED <<path, obj_models, obj_materials, tex, texArrival, matTask, meshPc,
                   built, meshTask, arrival, materials, queue, gpu, render>>

\* ------------------------------------------------------------------- draw
\* What a render pass reads from the vertex buffer of the mesh named n.
VertexBufferState(n) ==
    CASE gpu[n] = "done" -> "computed"
      [] gpu[n] = "running" -> "partial"
      [] OTHER -> "zero"

\* draw_mesh_instanced (lines 362-376)
draw_mesh_instanced(mesh, material, instances) ==
    [vertex_buffer |-> <<0, mesh.vertex_buffer>>,
     index_buffer |-> mesh.index_buffer,
     bind_groups |-> <<material.bind_group, "uniforms", "light">>,
     draw_indexed |-> [indices |-> <<0, mesh.num_elements>>, base_vertex |-> 0,
                       instances |-> instances],
     observed |-> VertexBufferState(mesh.name)]

\* draw_model_instanced (lines 387-398): meshes k.. of the model, after calls.
RECURSIVE draw_loop(_, _, _, _)
draw_loop(model, k, instances, calls) ==
    IF k > Len(model.meshes) THEN [calls |-> calls, outcome |-> "ok"]
    ELSE IF model.meshes[k].material >= Len(model.materials)
         THEN [calls |-> calls, outcome |-> "panic"]
         ELSE draw_loop(model, k + 1, instances,
                        Append(calls, draw_mesh_instanced(model.meshes[k],
                                                          model.materials[model.meshes[k].material + 1],
                                                          instances)))

draw_model_instanced(model, instances) == draw_loop(model, 1, instances, <<>>)

InstanceRanges == {<<0, 1>>, <<0, 2>>}

\* The caller of load draws the Model it got.
Draw ==
    /\ phase = "returned"
    /\ result # None
    /\ IsOk(result[1])
    /\ render = None
    /\ \E instances \in InstanceRanges :
          render' = Some(draw_model_instanced(result[1][2], instances))
    /\ UNCHANGED <<path, obj_models, obj_materials, phase, tex, texArrival, matTask,
                   meshPc, built, meshTask, arrival, materials, queue, gpu, result>>

\* ------------------------------------------------------------------- spec
Next ==
    \/ Parse /\ UNCHANGED swapVars
    \/ \E i \in 1..NMat : \E k \in 1..2 : LoadTexture(i, k) /\ UNCHANGED swapVars
    \/ \E i \in 1..NMat : \E k \in 1..2 : SkipTexture(i, k) /\ UNCHANGED swapVars
    \/ \E i \in 1..NMat : FinishMaterial(i) /\ UNCHANGED swapVars
    \/ \E i \in 1..NMat : SkipMaterial(i) /\ UNCHANGED swapVars
    \/ JoinMaterials /\ UNCHANGED swapVars
    \/ \E i \in 1..NMesh : BuildMesh(i) /\ UNCHANGED swapVars
    \/ \E i \in 1..NMesh : Submit(i) /\ UNCHANGED swapVars
    \/ \E i \in 1..NMesh : Poll(i) /\ UNCHANGED swapVars
    \/ \E i \in 1..NMesh : SkipMesh(i) /\ UNCHANGED swapVars
    \/ \E i \in 1..NMesh : GpuStart(i) /\ UNCHANGED swapVars
    \/ \E i \in 1..NMesh : GpuFinish(i) /\ UNCHANGED swapVars
    \/ JoinMeshes /\ UNCHANGED swapVars
    \/ Draw /\ UNCHANGED swapVars

Spec == Init /\ [][Next]_<<vars, swapVars>>

\* ------------------------------------------------------------ swap chain
\* State of code/src/beginner/tutorial2-swapchain.rs and the window events
\* its event loop handles.
\*
\* f64 values are kept exactly as fixed-point numbers: a hidpi factor and a
\* logical length are counted in halves (3 is 1.5), so their product, a
\* physical length, is counted in quarters.
MaxSwapChains == 4

HidpiFactors == {2, 3, 4}

LogicalLengths == {2, 3, 7}

LogicalSizes == [width : LogicalLengths, height : LogicalLengths]

\* LogicalSize::to_physical(hidpi_factor): each length times the factor.
to_physical(size, hidpi_factor) ==
    [width |-> size.width * hidpi_factor, height |-> size.height * hidpi_factor]

\* f64::round of a non-negative physical length: to the nearest integer,
\* halves away from zero.
round(quarters) == (quarters + 2) \div 4

\* device.create_swap_chain(&surface, &sc_desc); serial tells the swap chains
\* of the device apart.
create_swap_chain(sc_desc, serial) == [sc_desc |-> sc_desc, serial |-> serial]

\* State::new (lines 18-56)
State_new(hidpi_factor, size, serial) ==
    LET physical_size == to_physical(size, hidpi_factor)
        sc_desc == [usage |-> "OUTPUT_ATTACHMENT",
                    format |-> "Bgra8UnormSrgb",
                    width |-> AsU32(round(physical_size.width)),
                    height |-> AsU32(round(physical_size.height)),
                    present_mode |-> "Vsync"]
    IN [hidpi_factor |-> hidpi_factor,
        size |-> size,
        sc_desc |-> sc_desc,
        swap_chain |-> create_swap_chain(sc_desc, serial)]

\* State::resize (lines 63-69)
resize(self, new_size, serial) ==
    LET physical_size == to_physical(new_size, self.hidpi_factor)
        sc_desc == [self.sc_desc EXCEPT !.width = AsU32(round(physical_size.width)),
                                        !.height = AsU32(round(physical_size.height))]
    IN [self EXCEPT !.size = new_size,
                    !.sc_desc = sc_desc,
                    !.swap_chain = create_swap_chain(sc_desc, serial)]

\* Lines 58-61 with the resize done before the new factor is stored.
update_hidpi_after_resize(self, new_hidpi_factor, serial) ==
    [resize(self, self.size, serial) EXCEPT !.hidpi_factor = new_hidpi_factor]

\* State::update_hidpi_and_resize (lines 58-61)
update_hidpi_and_resize(self, new_hidpi_factor, serial) ==
    resize([self EXCEPT !.hidpi_factor = new_hidpi_factor], self.size, serial)

\* main, lines 113-118: the window is built and State::new runs.
InitSwap ==
    /\ \E hidpi_factor \in HidpiFactors : \E size \in LogicalSizes :
          state = Some(State_new(hidpi_factor, size, 1))
    /\ swap_chains = 1
    /\ control_flow = "Wait"
    /\ presented = None
    /\ last = None
    \* tutorial2-swapchain.rs loads no model
    /\ path = "missing"
    /\ obj_models = <<>>
    /\ obj_materials = <<>>
    /\ phase = "returned"
    /\ tex = <<>>
    /\ texArrival = <<>>
    /\ matTask = <<>>
    /\ meshPc = <<>>
    /\ built = <<>>
    /\ meshTask = <<>>
    /\ arrival = <<>>
    /\ materials = <<>>
    /\ queue = {}
    /\ gpu = <<>>
    /\ result = None
    /\ render = None

\* The event loop calls the closure until it has set ControlFlow::Exit.
Running_loop == control_flow # "Exit"

\* WindowEvent::Resized (lines 143-146)
Resized(logical_size) ==
    /\ Running_loop
    /\ swap_chains < MaxSwapChains
    /\ state' = Some(resize(state[1], logical_size, swap_chains + 1))
    /\ swap_chains' = swap_chains + 1
    /\ control_flow' = "Wait"
    /\ last' = Some([event |-> "Resized", value |-> logical_size, size_before |-> state[1].size])
    /\ UNCHANGED <<presented, vars>>

\* WindowEvent::HiDpiFactorChanged (lines 147-150)
HiDpiFactorChanged(new_hidpi_factor) ==
    /\ Running_loop
    /\ swap_chains < MaxSwapChains
    /\ state' = Some(update_hidpi_and_resize(state[1], new_hidpi_factor, swap_chains + 1))
    /\ swap_chains' = swap_chains + 1
    /\ control_flow' = "Wait"
    /\ last' = Some([event |-> "HiDpiFactorChanged", value |-> new_hidpi_factor,
                     size_before |-> state[1].size])
    /\ UNCHANGED <<presented, vars>>

\* WindowEvent::CloseRequested (line 129)
CloseRequested ==
    /\ Running_loop
    /\ control_flow' = "Exit"
    /\ UNCHANGED <<state, swap_chains, presented, last, vars>>

\* WindowEvent::KeyboardInput (lines 130-142)
KeyboardInput(pressed_escape) ==
    /\ Running_loop
    /\ control_flow' = IF pressed_escape THEN "Exit" ELSE "Wait"
    /\ UNCHANGED <<state, swap_chains, presented, last, vars>>

\* Event::EventsCleared (lines 154-158): update, then render (lines 79-109)
\* draws to the next texture of the current swap chain.
EventsCleared ==
    /\ Running_loop
    /\ presented' = Some(state[1].swap_chain.serial)
    /\ control_flow' = "Wait"
    /\ UNCHANGED <<state, swap_chains, last, vars>>

\* Any other event (lines 151, 159)
OtherEvent ==
    /\ Running_loop
    /\ control_flow' = "Wait"
    /\ UNCHANGED <<state, swap_chains, presented, last, vars>>

NextSwap ==
    \/ \E logical_size \in LogicalSizes : Resized(logical_size)
    \/ \E new_hidpi_factor \in HidpiFactors : HiDpiFactorChanged(new_hidpi_factor)
    \/ CloseRequested
    \/ \E pressed_escape \in BOOLEAN : KeyboardInput(pressed_escape)
    \/ EventsCleared
    \/ OtherEvent

SpecSwap == InitSwap /\ [][NextSwap]_<<vars, swapVars>>

\* ----------------------------------------------------------- observations
\* load has returned a Model.
ReturnedModel == phase = "returned" /\ result # None /\ IsOk(result[1])

TheModel == result[1][2]

\* The task of mesh i has read its record of the asset.
Read(i) == meshPc[i] \notin {"idle", "skipped"}

\* Texture loads that produced a texture, meshes whose buffers exist.
TexturesLoaded == {ik \in (1..NMat) \X (1..2) : IsOk(tex[ik[1]][ik[2]])}

MeshesBuilt == {i \in 1..NMesh : built[i] # None}

\* A parallel sub-task of load has failed.
TextureFailed == \E i \in 1..NMat : \E k \in 1..2 : IsErr(tex[i][k])

MeshFailed == \E i \in 1..NMesh : meshTask[i] = Panicked \/ IsErr(meshTask[i])

\* The arrays of a mesh do not describe one sequence of vertices.
Inconsistent(mesh) ==
    \/ mesh.positions % 3 # 0
    \/ mesh.texcoords % 2 # 0
    \/ mesh.normals % 3 # 0
    \/ mesh.positions \div 3 # mesh.texcoords \div 2
    \/ mesh.positions \div 3 # mesh.normals \div 3

TypeOK ==
    /\ phase \in {"parse", "materials", "meshes", "returned"}
    /\ \A i \in 1..NMesh : meshPc[i] \in {"idle", "encoded", "submitted", "done", "panicked", "skipped"}
    /\ \A i \in 1..NMesh : gpu[i] \in {"none", "pending", "running", "done"}

\* ----------------------------------------------------------------- claims

\* C1: load is all-or-nothing: when a texture load or a mesh build has failed,
\* load returns an error; it returns a Model only when every material and
\* every mesh succeeded.
C1_AllOrNothing ==
    (phase = "returned" /\ path = "asset") =>
        /\ (TextureFailed \/ MeshFailed) => IsErr(result[1])
        /\ IsOk(result[1]) => /\ \A i \in 1..NMat : IsOk(matTask[i])
                              /\ \A i \in 1..NMesh : IsOk(meshTask[i])

\* C2: a Model that load returns has one Mesh per mesh of the asset and every
\* mesh's material index is below the number of materials, so the lookup of
\* draw_model_instanced never fails.
C2_MaterialIndexInBounds ==
    /\ ReturnedModel =>
          /\ Len(TheModel.meshes) = NMesh
          /\ \A k \in 1..Len(TheModel.meshes) :
                TheModel.meshes[k].material < Len(TheModel.materials)
    /\ render # None => render[1].outcome = "ok"

\* C3: the compute pass of a mesh is complete when its task returns the mesh,
\* hence when load returns the Model, and every draw call reads a vertex
\* buffer whose tangents are fully computed.
C3_ComputeDoneBeforeUse ==
    /\ \A i \in 1..NMesh : IsOk(meshTask[i]) => gpu[i] = "done"
    /\ ReturnedModel => \A k \in 1..Len(TheModel.meshes) : gpu[TheModel.meshes[k].name] = "done"
    /\ render # None =>
          \A c \in 1..Len(render[1].calls) : render[1].calls[c].observed = "computed"

C3_Witness ==
    /\ render # None
    /\ Len(render[1].calls) >= 2

\* C4: the bind group of a mesh binds the vertex buffer at 0 and the index
\* buffer at 1: the bindings of Mesh::bind_group_entries are those of
\* Mesh::layout_entries, each used once, and the bind group carries them.
Bindings(entries) == {entries[e].binding : e \in DOMAIN entries}

C4_BindGroupMatchesLayout ==
    \A i \in MeshesBuilt :
        LET mesh == built[i][1].mesh
            entries == bind_group_entries(mesh)
            bg == built[i][1].calc_bind_group
        IN /\ Bindings(entries) = Bindings(layout_entries)
           /\ Cardinality(Bindings(entries)) = Len(entries)
           /\ \A e \in DOMAIN entries :
                 /\ entries[e].resource = mesh.vertex_buffer => entries[e].binding = 0
                 /\ entries[e].resource = mesh.index_buffer => entries[e].binding = 1
           /\ bg.entries = entries
           /\ bg.layout = layout_entries

\* C5: whatever the order the tasks finish in, position i of the materials
\* and of the meshes of the Model comes from record i of the asset, the
\* diffuse texture is the one loaded from the diffuse path as a colour map and
\* the normal texture the one loaded from the normal path as a normal map;
\* the Model is thus determined by the asset.
MaterialFromRecord(material, mat) ==
    /\ material.name = mat.name
    /\ material.diffuse_texture = [path |-> mat.diffuse_texture, is_normal_map |-> FALSE]
    /\ material.normal_texture = [path |-> mat.normal_texture, is_normal_map |-> TRUE]

MeshFromRecord(mesh, m) ==
    /\ mesh.name = m.name
    /\ mesh.vertex_buffer.label = <<m.name, "Vertex Buffer">>
    /\ mesh.vertex_buffer.contents.count = m.mesh.positions \div 3
    /\ mesh.index_buffer.label = <<m.name, "Index Buffer">>
    /\ mesh.index_buffer.contents = m.mesh.indices

C5_SourceOrder ==
    /\ phase \in {"meshes", "returned"} =>
          \A i \in 1..Len(materials) : MaterialFromRecord(materials[i], obj_materials[i])
    /\ ReturnedModel =>
          /\ Len(TheModel.materials) = NMat
          /\ Len(TheModel.meshes) = NMesh
          /\ \A i \in 1..NMat : MaterialFromRecord(TheModel.materials[i], obj_materials[i])
          /\ \A i \in 1..NMesh : MeshFromRecord(TheModel.meshes[i], obj_models[i])

\* A Model of two materials and at least two meshes whose second mesh
\* finished before its first.
C5_Witness ==
    /\ ReturnedModel
    /\ Len(TheModel.materials) >= 2
    /\ Len(arrival) >= 2
    /\ arrival[1] > arrival[2]

\* C6: a mesh whose arrays are inconsistent makes its build fail with the
\* error value MalformedMeshData, which load returns; it does not panic.
C6_MalformedIsError ==
    /\ \A i \in 1..NMesh :
          (Read(i) /\ Inconsistent(obj_models[i].mesh)) =>
              meshTask[i] = Err("MalformedMeshData")
    /\ (phase = "returned" /\ \E i \in 1..NMesh : Read(i) /\ Inconsistent(obj_models[i].mesh)) =>
          IsErr(result[1])

\* C7: when the path names no asset that parses, load returns the parse
\* error at once: no texture is loaded, no buffer or bind group is created,
\* nothing is submitted and there is no Model.
C7_ParseFailureCreatesNothing ==
    path \in {"missing", "unparsable", "noparent"} =>
        /\ phase \in {"parse", "returned"}
        /\ phase = "returned" => result = Some(Err("AssetParseError"))
        /\ TexturesLoaded = {}
        /\ \A i \in 1..NMat : tex[i] = <<Idle, Idle>> /\ matTask[i] = Idle
        /\ MeshesBuilt = {}
        /\ materials = <<>>
        /\ queue = {}
        /\ \A i \in 1..NMesh : gpu[i] = "none"
        /\ render = None

C7_Witness ==
    /\ path \in {"missing", "unparsable", "noparent"}
    /\ phase = "returned"
    /\ NMat >= 1
    /\ NMesh >= 1

\* C8 as stated: the compute submissions of two meshes are never in flight
\* at the same time.
C8_Serialized == Cardinality(InFlight) <= 1

\* C8 as amended: a submission is in flight only while the task of its mesh
\* is blocked between its submit and the return of its poll, so there are
\* never more submissions in flight than worker threads.
C8_InFlightWithinThreads ==
    /\ InFlight \subseteq {i \in 1..NMesh : meshPc[i] = "submitted"}
    /\ Cardinality(InFlight) <= NumThreads

\* Every worker thread is blocked on a submission in flight while a further
\* mesh waits for a thread.
C8_Witness ==
    /\ Cardinality(InFlight) = NumThreads
    /\ NumThreads >= 2
    /\ \E i \in 1..NMesh : meshPc[i] = "idle"

\* C9: a built mesh has its number of indices as num_elements and exactly one
\* dispatch, of (number of indices / 3, 1, 1) workgroups, with the loader's
\* pipeline and the mesh's own bind group at group 0; it is submitted once.
Dispatches(commands) == {c \in DOMAIN commands : commands[c].op = "dispatch"}

C9_OneDispatchPerTriangle ==
    \A i \in MeshesBuilt :
        LET b == built[i][1]
            n == obj_models[i].mesh.indices
        IN /\ b.mesh.num_elements = n
           /\ Cardinality(Dispatches(b.encoder)) = 1
           /\ \A c \in Dispatches(b.encoder) :
                 /\ b.encoder[c].x * 3 <= n
                 /\ n < (b.encoder[c].x + 1) * 3
                 /\ b.encoder[c].y = 1
                 /\ b.encoder[c].z = 1
                 /\ \E p \in 1..(c - 1) :
                       /\ b.encoder[p].op = "set_pipeline"
                       /\ b.encoder[p].pipeline = "ModelLoader ComputePipeline"
                 /\ \E g \in 1..(c - 1) :
                       /\ b.encoder[g].op = "set_bind_group"
                       /\ b.encoder[g].index = 0
                       /\ b.encoder[g].bind_group = b.calc_bind_group
                       /\ \A e \in DOMAIN b.calc_bind_group.entries :
                             b.calc_bind_group.entries[e].resource
                                 \in {b.mesh.vertex_buffer, b.mesh.index_buffer}
           /\ Cardinality({q \in queue : q.mesh = i}) = (IF meshPc[i] = "encoded" THEN 0 ELSE 1)
           /\ \A q \in queue : q.mesh = i => q.commands = b.encoder

\* A mesh of two triangles has run through its task.
C9_Witness ==
    \E i \in 1..NMesh :
        /\ meshPc[i] = "done"
        /\ obj_models[i].mesh.indices = 6

\* C10: a mesh without faces does not fail: its task returns a Mesh with
\* num_elements = 0, a load that fails has another mesh or a texture to blame,
\* and drawing the mesh is an indexed draw over 0..0.
ZeroFaces(i) == Read(i) /\ obj_models[i].mesh.indices = 0

C10_ZeroFacesLoadAndDraw ==
    /\ \A i \in 1..NMesh :
          ZeroFaces(i) =>
              /\ meshTask[i] # Panicked
              /\ ~IsErr(meshTask[i])
              /\ IsOk(meshTask[i]) => meshTask[i][2].num_elements = 0
    /\ (phase = "returned" /\ path = "asset" /\ ~IsOk(result[1])) =>
          \/ TextureFailed
          \/ \E j \in 1..NMesh : meshTask[j] = Panicked /\ ~ZeroFaces(j)
    /\ render # None =>
          \A c \in 1..Len(render[1].calls) :
              LET call == render[1].calls[c]
              IN ZeroFaces(call.vertex_buffer[2].label[1]) =>
                    /\ call.draw_indexed.indices = <<0, 0>>
                    /\ call.draw_indexed.base_vertex = 0

\* A Model with a mesh without faces has been drawn.
C10_Witness ==
    /\ render # None
    /\ \E c \in 1..Len(render[1].calls) :
          /\ ZeroFaces(render[1].calls[c].vertex_buffer[2].label[1])
          /\ render[1].calls[c].draw_indexed.indices = <<0, 0>>

\* C11: the material phase comes before the mesh phase: a mesh task runs, a
\* buffer exists or a compute pass is submitted only once every material of
\* the asset has been loaded, so a load with a failed texture builds no mesh
\* and submits nothing.
MeshWorkStarted ==
    \/ \E i \in 1..NMesh : meshPc[i] # "idle" \/ gpu[i] # "none" \/ meshTask[i] # Idle
    \/ MeshesBuilt # {}
    \/ queue # {}

C11_MaterialsBeforeMeshes ==
    /\ MeshWorkStarted =>
          /\ phase \in {"meshes", "returned"}
          /\ \A i \in 1..NMat : IsOk(matTask[i])
          /\ Len(materials) = NMat
    /\ TextureFailed => ~MeshWorkStarted

\* A load of an asset with meshes has returned after one of its textures
\* failed and another loaded.
C11_Witness ==
    /\ phase = "returned"
    /\ TextureFailed
    /\ TexturesLoaded # {}
    /\ NMesh >= 1

\* C12: after any Resized and HiDpiFactorChanged events the descriptor's width
\* and height are the stored logical size times the stored hidpi factor,
\* rounded to the nearest pixel, and the current swap chain is the newest the
\* device has created, made from that descriptor; the last event's size or
\* factor is the stored one, and a HiDpiFactorChanged left the size as it was.
Nearest(pixels, quarters) == 4 * pixels - 2 <= quarters /\ quarters < 4 * pixels + 2

C12_DescriptorFollowsSizeAndFactor ==
    state # None =>
        LET self == state[1] IN
        /\ Nearest(self.sc_desc.width, self.size.width * self.hidpi_factor)
        /\ Nearest(self.sc_desc.height, self.size.height * self.hidpi_factor)
        /\ self.swap_chain.sc_desc = self.sc_desc
        /\ self.swap_chain.serial = swap_chains
        /\ last # None =>
              /\ last[1].event = "Resized" => self.size = last[1].value
              /\ last[1].event = "HiDpiFactorChanged" =>
                    /\ self.hidpi_factor = last[1].value
                    /\ self.size = last[1].size_before

\* A HiDpiFactorChanged that changed the factor has followed a Resized, and
\* the physical width is a rounded one.
C12_Witness ==
    /\ state # None
    /\ last # None
    /\ last[1].event = "HiDpiFactorChanged"
    /\ swap_chains >= 3
    /\ (state[1].size.width * state[1].hidpi_factor) % 4 = 2

====
